---- MODULE Spec2Model ----
(***************************************************************************)
(* postgres-multi-mcp-server: the modular server (ToolHandlers,            *)
(* ResourceHandlers and the pooled DatabaseManager) as a state machine.    *)
(*                                                                         *)
(* A tool call or resource request is an async function: it runs           *)
(* synchronously up to its next await and is resumed when the awaited      *)
(* database round trip settles.  Each action below is one such run: the    *)
(* settling of the awaited promise together with the continuation up to    *)
(* the next await (or to the end of the handler, finally block included).  *)
(*                                                                         *)
(* The repository holds two DatabaseManager classes, one keeping a pool    *)
(* per environment and one opening a pool per call, and a single-file      *)
(* server (src/index.ts) with its own copy of the configuration code; the  *)
(* variable variant says which of them a behaviour runs.  Spec and         *)
(* FairSpec run the pooled manager, PerCallSpec the per-call one, and      *)
(* StartupSpec runs configuration loading and pool construction of all     *)
(* three.  OverlapSpec runs a switchDatabase while another call of the     *)
(* pooled manager is under way, and BuilderSpec the calls whose statement  *)
(* is built from structured arguments.  The SIGINT/SIGTERM handlers are    *)
(* the actions Signal and CloseAllDone.                                    *)
(***************************************************************************)
EXTENDS Integers, Sequences, FiniteSets, TLC

\* ------------------------------------------------------------------ bounds

\* Rows a table may hold before no further call is dispatched.
MaxRows == 2

\* Clients one pool may open (the code's max: dbConfig.poolSize || 10); under
\* the per-call strategy, the pools one environment may have open at a time.
PoolMax == 2

\* Termination signals the process may receive.
MaxSignals == 2

\* Properties a `data` argument may have, and columns and table constraints
\* of a createTable.
MaxColumns == 2

\* ------------------------------------------------------------- value space

\* Environment names a configuration may declare.  "1" is an integer-like
\* property key, which a JavaScript object enumerates before string keys.
EnvNames == {"a", "b", "1"}

IntegerLike(name) == name \in {"1"}

NotIntegerLike(name) == ~IntegerLike(name)

\* JavaScript's undefined; as a property key it reads as the string.
Undefined == "undefined"

\* Properties every plain object ({}) inherits from Object.prototype.
ObjectPrototypeKeys == {"constructor"}

\* Values of the `database` argument of switchDatabase; Undefined is the
\* missing argument.
SwitchArgs == EnvNames \cup ObjectPrototypeKeys \cup {"nosuch", Undefined}

\* The slots of the calls in flight when requests come one after the other,
\* and when the transport delivers a request while another is in flight.
OneAtATime == {"c1"}

Overlapping == {"c1", "c2"}

PoolObj(n) == [kind |-> "pool", env |-> n]

ProtoValue(k) == [kind |-> "proto", env |-> k]

UndefinedValue == [kind |-> "undefined", env |-> ""]

\* obj[key] on a plain JavaScript object: an own property, else a property
\* inherited from Object.prototype, else undefined.
Get(obj, key) ==
  IF key \in DOMAIN obj THEN obj[key]
  ELSE IF key \in ObjectPrototypeKeys THEN ProtoValue(key)
  ELSE UndefinedValue

\* JavaScript truthiness of a looked-up value.
Truthy(v) == v.kind # "undefined"

\* An optional string property: whether it is there, and its text.
NotSet == [set |-> FALSE, text |-> <<>>]

Set(text) == [set |-> TRUE, text |-> text]

\* JavaScript truthiness of an optional string: there and not empty.
TruthyText(v) == v.set /\ v.text # <<>>

\* Object.keys(Object.fromEntries(entries)): integer-like keys first, then
\* the other keys in insertion order.
ObjectKeys(entries) ==
  SelectSeq(entries, IntegerLike) \o SelectSeq(entries, NotIntegerLike)

Range(s) == {s[i] : i \in DOMAIN s}

\* The `environments` arrays of the configurations: one environment; two;
\* two of which the second has an integer-like name.
Configs == {<<"a">>, <<"a", "b">>, <<"a", "1">>}

\* The `environments` array under the per-call DatabaseManager.
PerCallConfigs == {<<"a">>}

\* ------------------------------------------------------ the database engine

\* The effect of one SQL text, as the statements the engine runs for it:
\* "read" (a SELECT), "write" (inserts a row), "bad" (raises an error, e.g.
\* a constraint violation), "commit" (a COMMIT inside the text).
CallerSql ==
  {<<"read">>, <<"write">>, <<"bad">>, <<"commit", "write">>,
   <<"write", "commit", "bad">>}

\* Statements the builders produce: one statement, which writes or fails.
BuiltSql == {<<"write">>, <<"bad">>}

\* One statement on a session s = [txn, delta, db, ok]: txn is the session's
\* transaction state, delta its uncommitted rows, db the committed rows of
\* the database, ok whether no statement of the text has failed yet.
ExecStmt(s, st) ==
  IF ~s.ok THEN s
  ELSE IF st = "begin" THEN
    IF s.txn = "none" THEN [s EXCEPT !.txn = "rw"] ELSE s
  ELSE IF st = "begin_ro" THEN
    IF s.txn = "none" THEN [s EXCEPT !.txn = "ro"] ELSE s
  ELSE IF st = "read" THEN
    IF s.txn = "aborted" THEN [s EXCEPT !.ok = FALSE] ELSE s
  ELSE IF st = "write" THEN
    IF s.txn = "rw" THEN [s EXCEPT !.delta = @ + 1]
    ELSE IF s.txn = "none" THEN [s EXCEPT !.db = @ + 1]
    ELSE [s EXCEPT !.ok = FALSE, !.txn = "aborted"]
  ELSE IF st = "bad" THEN
    [s EXCEPT !.ok = FALSE,
              !.txn = IF @ \in {"rw", "ro"} THEN "aborted" ELSE @]
  ELSE IF st = "commit" THEN
    [s EXCEPT !.txn = "none", !.delta = 0,
              !.db = IF s.txn \in {"rw", "ro"} THEN @ + s.delta ELSE @]
  ELSE \* "rollback"
    [s EXCEPT !.txn = "none", !.delta = 0]

RECURSIVE ExecSql(_, _)
\* The statements of one SQL text in order, stopping at the first error.
ExecSql(s, sql) ==
  IF sql = <<>> THEN s ELSE ExecSql(ExecStmt(s, Head(sql)), Tail(sql))

\* ------------------------------------------------------------------- state

VARIABLES
  config,           \* config.environments: the declared names, in order
  databases,        \* DatabaseManager.databases: its keys, in Object.keys order
  pools,            \* DatabaseManager.pools: name -> Pool
  currentDatabase,  \* DatabaseManager.currentDatabase
  pool,             \* DatabaseManager.pool
  clients,          \* per pool, its clients: holder, session state, queue
  committed,        \* per environment, the committed rows of its database
  calls,            \* per slot, the call in flight
  lastSwitch,       \* the target of the last successful switchDatabase
  variant,          \* which DatabaseManager the server is built with
  startup,          \* the start of the process: its inputs and how far it is
  process,          \* whether the process runs, its exit code, signals got
  ending,           \* the pools on which end() has been called
  closers           \* signal handlers awaiting closeAll()

\* The slots of calls in flight.
Calls == DOMAIN calls

\* What no request changes.
static == <<config, variant, startup>>

\* What only a termination signal changes.
lifecycle == <<process, ending, closers>>

vars ==
  <<config, databases, pools, currentDatabase, pool, clients, committed,
    calls, lastSwitch, variant, startup, process, ending, closers>>

MutatingOps ==
  {"execute", "insert", "update", "delete", "createTable", "createFunction",
   "createTrigger", "createIndex", "alterTable"}

\* Operations that build their statement from a structured argument (data,
\* columns, events) with Object.keys, map or join: a missing argument makes
\* the builder throw a TypeError inside try, before BEGIN.
StructuredOps == {"insert", "update", "createTable", "createTrigger", "createIndex"}

NoOutcome == [kind |-> "none", isError |-> FALSE, error |-> "none"]

Envelope == [kind |-> "envelope", isError |-> FALSE, error |-> "none"]

Thrown(e) == [kind |-> "thrown", isError |-> FALSE, error |-> e]

\* A client the pool has not opened yet; its holder is "free" while it is
\* idle in the pool and the call's slot while a call holds it.
FreshClient ==
  [holder |-> "absent", txn |-> "none", delta |-> 0, queued |-> FALSE]

IdleCall ==
  [op |-> "none", arg |-> "", sql |-> <<>>, pool |-> UndefinedValue,
   client |-> 0, pc |-> "idle", err |-> "none", log |-> <<>>,
   acquired |-> 0, released |-> 0, rbFailed |-> FALSE,
   outcome |-> NoOutcome, handler |-> "none", listed |-> <<>>,
   tools |-> <<>>,
   uri |-> [present |-> FALSE, parses |-> FALSE, path |-> <<>>],
   input |-> [given |-> FALSE], text |-> <<>>, params |-> <<>>,
   sent |-> <<>>, payload |-> [kind |-> "none", sql |-> <<>>],
   envAtStart |-> Undefined,
   curBefore |-> Undefined, poolBefore |-> UndefinedValue,
   dataBefore |-> <<>>]

\* The DatabaseManager variants: one pool per environment opened by the
\* constructor, or a new pool made by every getCurrentPool().
Variants == {"pooled", "perCall"}

\* The startup record of a process that serves requests; unbuildable are the
\* environments whose connection string cannot be built (a placeholder names
\* a variable that is not in the table).
Serving(unbuildable) == [pc |-> "serving", unbuildable |-> unbuildable]

RunningProcess == [status |-> "running", code |-> 0, signals |-> 0]

Exited(code) == [process EXCEPT !.status = "exited", !.code = code]

\* ------------------------------------------------------------- construction

\* new DatabaseManager(config): a pool per environment; the cursor is the
\* first key of `databases` and the active pool that key's pool.
Init ==
  /\ variant = "pooled"
  /\ startup = Serving({})
  /\ process = RunningProcess
  /\ ending = {}
  /\ closers = 0
  /\ config \in Configs
  /\ databases = ObjectKeys(config)
  /\ pools = [n \in Range(config) |-> PoolObj(n)]
  /\ currentDatabase =
       IF Len(databases) > 0 THEN databases[1] ELSE Undefined
  /\ pool = Get(pools, currentDatabase)
  /\ clients = [n \in Range(config) |-> [k \in 1..PoolMax |-> FreshClient]]
  /\ committed = [n \in Range(config) |-> 0]
  /\ calls = [c \in OneAtATime |-> IdleCall]
  /\ lastSwitch = Undefined

\* new DatabaseManager(config) of the per-call variant: no pool is opened,
\* no connection string built; the cursor is the first key of `databases`.
\* The last environment's configuration may hold a placeholder for a
\* variable that is not in the table.  The key "constructor" of `databases`
\* reads as Object, from which buildConnectionString builds the string of
\* the default database at localhost: that database is a target too.
InitPerCall ==
  /\ variant = "perCall"
  /\ config \in PerCallConfigs
  /\ startup \in {Serving({}), Serving({config[Len(config)]})}
  /\ process = RunningProcess
  /\ ending = {}
  /\ closers = 0
  /\ databases = ObjectKeys(config)
  /\ pools = <<>>
  /\ currentDatabase = databases[1]
  /\ pool = UndefinedValue
  /\ clients = [n \in Range(config) \cup ObjectPrototypeKeys |->
                  [k \in 1..PoolMax |-> FreshClient]]
  /\ committed = [n \in Range(config) \cup ObjectPrototypeKeys |-> 0]
  /\ calls = [c \in OneAtATime |-> IdleCall]
  /\ lastSwitch = Undefined

\* --------------------------------------------------------- DatabaseManager

\* this.databases as a plain object: name -> DatabaseConfig.
DatabasesObj == [n \in Range(databases) |-> [kind |-> "config", env |-> n]]

\* What a call that threw while building a connection string has for a pool.
ThrewValue == [kind |-> "threw", env |-> ""]

GetCurrentDatabase == currentDatabase

\* A getCurrentPool that ignores the cursor.
GetCurrentPoolFirst ==
  Get(pools, IF Len(databases) > 0 THEN databases[1] ELSE Undefined)

\* getCurrentPool(): the active pool; in the per-call variant a new Pool on
\* the connection string built from databases[currentDatabase], which throws
\* when a placeholder names a variable that is not in the table.
GetCurrentPool ==
  IF variant = "perCall"
  THEN IF currentDatabase \in startup.unbuildable
       THEN ThrewValue
       ELSE PoolObj(currentDatabase)
  ELSE pool

\* A switchDatabase that moves the cursor and forgets the active pool.
SwitchDatabaseCursorOnly(databaseName) ==
  IF ~Truthy(Get(pools, databaseName))
  THEN [threw |-> TRUE, currentDatabase |-> currentDatabase, pool |-> pool]
  ELSE [threw |-> FALSE, currentDatabase |-> databaseName, pool |-> pool]

\* A switchDatabase that moves the cursor before it looks the name up.
SwitchDatabaseEager(databaseName) ==
  IF ~Truthy(Get(pools, databaseName))
  THEN [threw |-> TRUE, currentDatabase |-> databaseName, pool |-> pool]
  ELSE [threw |-> FALSE, currentDatabase |-> databaseName,
        pool |-> Get(pools, databaseName)]

\* switchDatabase(databaseName): what it leaves in the cursor and the active
\* pool, and whether it threw.
\* The per-call variant looks the name up in this.databases and keeps no
\* active pool.
SwitchDatabase(databaseName) ==
  IF variant = "perCall"
  THEN IF ~Truthy(Get(DatabasesObj, databaseName))
       THEN [threw |-> TRUE, currentDatabase |-> currentDatabase, pool |-> pool]
       ELSE [threw |-> FALSE, currentDatabase |-> databaseName, pool |-> pool]
  ELSE IF ~Truthy(Get(pools, databaseName))
  THEN [threw |-> TRUE, currentDatabase |-> currentDatabase, pool |-> pool]
  ELSE [threw |-> FALSE, currentDatabase |-> databaseName,
        pool |-> Get(pools, databaseName)]

\* ------------------------------------------------------------ tool dispatch

\* closeAll() has resolved: in the pooled variant every pool has ended (end()
\* was called and its last client is gone); the per-call variant's closeAll
\* resolves at once.
CloseAllResolved ==
  IF variant = "perCall" THEN TRUE
  ELSE \A n \in DOMAIN pools :
         /\ n \in ending
         /\ \A k \in 1..PoolMax : clients[n][k].holder = "absent"

\* A signal handler's await closeAll() has settled: its continuation is a
\* microtask, which runs before any other event is handled.
ExitPending == closers > 0 /\ CloseAllResolved

\* The process handles events.
Running == process.status = "running" /\ ~ExitPending

CanDispatch(c) ==
  /\ Running
  /\ calls[c].pc = "idle"
  /\ \A n \in DOMAIN committed : committed[n] < MaxRows

\* The case labels of handleToolCall's switch, in order.
ToolCases ==
  <<"switchDatabase", "listDatabases", "query", "execute", "insert",
    "update", "delete", "createTable", "createFunction", "createTrigger",
    "createIndex", "alterTable">>

\* The handler each case returns the result of.
ToolHandlers ==
  <<"handleSwitchDatabase", "handleListDatabases", "handleQuery",
    "handleExecute", "handleInsert", "handleUpdate", "handleDelete",
    "handleCreateTable", "handleCreateFunction", "handleCreateTrigger",
    "handleCreateIndex", "handleAlterTable">>

\* Request names that are no case label; "constructor" is one although every
\* plain object has a property of that name (switch compares with ===).
UnknownNames == {"nosuch", "constructor", Undefined}

\* A switch whose default case lists the databases.
HandlerOfNoDefault(name) ==
  IF \E i \in DOMAIN ToolCases : ToolCases[i] = name
  THEN ToolHandlers[CHOOSE i \in DOMAIN ToolCases :
         /\ ToolCases[i] = name
         /\ \A j \in 1..(i - 1) : ToolCases[j] # name]
  ELSE "handleListDatabases"

\* switch (name): the handler of the first case whose label is the name,
\* "default" when there is none.  The resource handlers are not routed by
\* this switch.
HandlerOf(name) ==
  IF \E i \in DOMAIN ToolCases : ToolCases[i] = name
  THEN ToolHandlers[CHOOSE i \in DOMAIN ToolCases :
         /\ ToolCases[i] = name
         /\ \A j \in 1..(i - 1) : ToolCases[j] # name]
  ELSE "default"

\* The call as handleToolCall receives it.
NewCall(op, arg, sql) ==
  [IdleCall EXCEPT !.op = op, !.arg = arg, !.sql = sql,
                   !.handler = IF op \in {"listResources", "readResource"}
                               THEN "resource"
                               ELSE IF op = "listTools" THEN "listTools"
                               ELSE HandlerOf(op),
                   !.envAtStart = currentDatabase,
                   !.curBefore = currentDatabase, !.poolBefore = pool,
                   !.dataBefore = committed]

\* case 'switchDatabase': handleSwitchDatabase runs to its end without an
\* await.
CallSwitchDatabase(c, database) ==
  /\ CanDispatch(c)
  /\ LET r == SwitchDatabase(database) IN
     /\ currentDatabase' = r.currentDatabase
     /\ pool' = r.pool
     /\ lastSwitch' = IF r.threw THEN lastSwitch ELSE database
     /\ calls' = [calls EXCEPT ![c] =
          [NewCall("switchDatabase", database, <<>>) EXCEPT
             !.pc = "done",
             !.outcome = IF r.threw THEN Thrown("NotFound") ELSE Envelope]]
  /\ UNCHANGED <<static, lifecycle, databases, pools, clients, committed>>

\* config.environments.map(env => ({name: env.name, ...,
\*   current: env.name === currentDatabase})).
DatabaseInfo ==
  [i \in DOMAIN config |->
     [name |-> config[i], current |-> config[i] = GetCurrentDatabase]]

\* case 'listDatabases': reads the configuration and the cursor; arg holds
\* the currentDatabase field of the result, listed its databases field.
CallListDatabases(c) ==
  /\ CanDispatch(c)
  /\ calls' = [calls EXCEPT ![c] =
       [NewCall("listDatabases", GetCurrentDatabase, <<>>) EXCEPT
          !.listed = DatabaseInfo,
          !.pc = "done", !.outcome = Envelope]]
  /\ UNCHANGED <<static, lifecycle, databases, pools, currentDatabase, pool, clients,
                 committed, lastSwitch>>

\* default: throw new Error(`Unknown tool: ${name}`).
CallUnknown(c, name) ==
  /\ CanDispatch(c)
  /\ calls' = [calls EXCEPT ![c] =
       [NewCall(name, "", <<>>) EXCEPT
          !.pc = "done", !.outcome = Thrown("UnknownTool")]]
  /\ UNCHANGED <<static, lifecycle, databases, pools, currentDatabase, pool, clients,
                 committed, lastSwitch>>

\* The names of the tools createToolDefinitions returns, in order.
ToolNames ==
  <<"switchDatabase", "listDatabases", "query", "execute", "insert",
    "update", "delete", "createTable", "createFunction", "createTrigger",
    "createIndex", "alterTable">>

\* createToolDefinitions(databaseNames): of each tool its name and, for the
\* one parameter that has one, the enum of its `database` property.
CreateToolDefinitions(databaseNames) ==
  [i \in DOMAIN ToolNames |->
     [name |-> ToolNames[i],
      enum |-> IF ToolNames[i] = "switchDatabase" THEN databaseNames
               ELSE <<>>]]

\* The ListTools request: createToolDefinitions on
\* Object.keys(dbManager.getDatabases()).
ListTools(c) ==
  /\ CanDispatch(c)
  /\ calls' = [calls EXCEPT ![c] =
       [NewCall("listTools", "", <<>>) EXCEPT
          !.tools = CreateToolDefinitions(databases),
          !.pc = "done", !.outcome = Envelope]]
  /\ UNCHANGED <<static, lifecycle, databases, pools, currentDatabase, pool, clients,
                 committed, lastSwitch>>

\* The first lines of every handler that uses the database:
\*   const pool = this.dbManager.getCurrentPool();
\*   const client = await pool.connect();
\* A value that is no Pool has no connect method: a TypeError is thrown
\* before anything is acquired.
Acquire(call) ==
  LET p == GetCurrentPool IN
  IF p.kind = "pool"
  THEN [call EXCEPT !.pool = p, !.pc = "connect"]
  ELSE IF p.kind = "threw"
  THEN [call EXCEPT !.pc = "done", !.err = "UnknownVariable",
                    !.outcome = Thrown("UnknownVariable")]
  ELSE [call EXCEPT !.pool = p, !.pc = "done",
                    !.outcome = Thrown("TypeError")]

\* case 'query'.
CallQuery(c, sql) ==
  /\ CanDispatch(c)
  /\ calls' = [calls EXCEPT ![c] = Acquire(NewCall("query", "", sql))]
  /\ UNCHANGED <<static, lifecycle, databases, pools, currentDatabase, pool, clients,
                 committed, lastSwitch>>

\* case 'execute' ... case 'alterTable'; arg is "missing" when the
\* structured argument is.
CallMutating(c, op, arg, sql) ==
  /\ CanDispatch(c)
  /\ calls' = [calls EXCEPT ![c] = Acquire(NewCall(op, arg, sql))]
  /\ UNCHANGED <<static, lifecycle, databases, pools, currentDatabase, pool, clients,
                 committed, lastSwitch>>

\* ---------------------------------------------------------------- resources

\* Resource URIs a read may carry: missing, unparseable, or parsed, with
\* `path` the value of resourceUrl.pathname.split('/').
ResourceUris ==
  {[present |-> FALSE, parses |-> FALSE, path |-> <<>>],
   [present |-> TRUE, parses |-> FALSE, path |-> <<>>],
   [present |-> TRUE, parses |-> TRUE, path |-> <<"", "t", "schema">>],
   [present |-> TRUE, parses |-> TRUE, path |-> <<"", "t", "columns">>],
   [present |-> TRUE, parses |-> TRUE, path |-> <<"", "schema">>]}

\* result.rows of the listing's SELECT: the names of the public tables, each
\* a string of tokens.  A token is a piece of text (no two pieces are next to
\* each other) or one of the characters "/" and "?"; "my table" is a piece
\* with a space in it.
TableRows == <<<<"t">>, <<"my table">>, <<"a", "/", "b">>, <<"q", "?", "x">>>>

\* What the URL parser makes of one token of a path: a space is
\* percent-encoded, the rest is kept.
EncodePathToken(t) == IF t = "my table" THEN "my%20table" ELSE t

\* new URL(`${table_name}/${SCHEMA_PATH}`, resourceBaseUrl).href: the relative
\* reference is parsed after the base's "postgres://localhost/".
Href(tableName) ==
  LET relative == tableName \o <<"/", "schema">> IN
  <<"postgres://localhost", "/">>
  \o [i \in DOMAIN relative |-> EncodePathToken(relative[i])]

RECURSIVE SplitPath(_)
\* pathname.split('/'): the pieces between the slashes, "" where two
\* slashes meet, at the start and at the end.
SplitPath(pathname) ==
  IF pathname = <<>> THEN <<"">>
  ELSE IF Head(pathname) = "/" THEN <<"">> \o SplitPath(Tail(pathname))
  ELSE [SplitPath(Tail(pathname)) EXCEPT ![1] = Head(pathname)]

\* new URL(uri) and its pathname, split: a string that does not start with a
\* scheme does not parse; the path ends where the query starts and is not
\* decoded.
NewURL(uri) ==
  IF uri = <<>> \/ uri[1] # "postgres://localhost"
  THEN [present |-> TRUE, parses |-> FALSE, path |-> <<>>]
  ELSE LET queries == {i \in DOMAIN uri : uri[i] = "?"}
           last == IF queries = {} THEN Len(uri)
                   ELSE (CHOOSE i \in queries : \A j \in queries : i <= j) - 1
       IN [present |-> TRUE, parses |-> TRUE,
           path |-> SplitPath(SubSeq(uri, 2, last))]

\* The URIs a read may carry: those above, one with a segment too many, one
\* that is no URL, and those of the listing.
RequestUris ==
  ResourceUris
  \cup {NewURL(<<"postgres://localhost", "/", "x", "/", "t", "/", "schema">>),
        NewURL(<<"t/schema">>)}
  \cup {NewURL(Href(TableRows[i])) : i \in DOMAIN TableRows}

\* Array.prototype.pop: the last element (undefined when empty).
Pop(a) == IF Len(a) = 0 THEN Undefined ELSE a[Len(a)]

\* The array after pop.
Popped(a) == IF Len(a) = 0 THEN a ELSE SubSeq(a, 1, Len(a) - 1)

SCHEMA_PATH == "schema"

\* handleListResources.
ListResources(c) ==
  /\ CanDispatch(c)
  /\ calls' = [calls EXCEPT ![c] = Acquire(NewCall("listResources", "", <<"read">>))]
  /\ UNCHANGED <<static, lifecycle, databases, pools, currentDatabase, pool, clients,
                 committed, lastSwitch>>

\* handleReadResource up to its first await: the URI is checked before the
\* pool is asked for a client.
ReadResource(c, uri) ==
  /\ CanDispatch(c)
  /\ LET call == [NewCall("readResource", "", <<"read">>) EXCEPT !.uri = uri]
         schema == Pop(uri.path)
         tableName == Pop(Popped(uri.path))
     IN calls' = [calls EXCEPT ![c] =
          IF ~uri.present
          THEN [call EXCEPT !.pc = "done", !.outcome = Thrown("UriRequired")]
          ELSE IF ~uri.parses
          THEN [call EXCEPT !.pc = "done", !.outcome = Thrown("InvalidUri")]
          ELSE IF schema # SCHEMA_PATH
          THEN [call EXCEPT !.pc = "done", !.outcome = Thrown("InvalidUri")]
          ELSE Acquire([call EXCEPT !.arg = tableName])]
  /\ UNCHANGED <<static, lifecycle, databases, pools, currentDatabase, pool, clients,
                 committed, lastSwitch>>

\* ------------------------------------------------------- statement builders

\* A statement is a string of tokens: the literal pieces of the handler's
\* template and the pieces of text it interpolates from the arguments.

RECURSIVE Join(_, _)
\* items.join(sep), the items being strings of tokens.
Join(items, sep) ==
  IF items = <<>> THEN <<>>
  ELSE IF Len(items) = 1 THEN items[1]
  ELSE items[1] \o <<sep>> \o Join(Tail(items), sep)

\* `$${i + 1}` for the index i + 1.
Placeholder(i) == <<"$1", "$2", "$3", "$4">>[i]

\* A data object is the sequence of its properties [key, value] as written.
\* Object.keys(data): its keys, integer-like ones first.
DataKeys(data) == ObjectKeys([i \in DOMAIN data |-> data[i].key])

\* Where a data object has the property of a key.
IndexOfKey(data, key) == CHOOSE i \in DOMAIN data : data[i].key = key

\* An Object.values that keeps the order in which the properties were written.
ObjectValuesAsWritten(data) == [i \in DOMAIN data |-> data[i].value]

\* Object.values(data): the values in the order of Object.keys(data).
ObjectValues(data) ==
  [i \in DOMAIN data |-> data[IndexOfKey(data, DataKeys(data)[i])].value]

\* handleInsert: the statement and the values it sends with it.
InsertSql(table, data) ==
  LET columns == DataKeys(data)
      values == ObjectValues(data)
      placeholders == [i \in DOMAIN values |-> <<Placeholder(i)>>]
  IN [text |-> <<"INSERT INTO ", table, " (">>
               \o Join([i \in DOMAIN columns |-> <<columns[i]>>], ", ")
               \o <<") VALUES (">> \o Join(placeholders, ", ")
               \o <<") RETURNING *">>,
      params |-> values]

\* handleUpdate: Object.entries(data).map(([col, _], i) => `${col} = $${i + 1}`).
UpdateSql(table, data, where) ==
  LET columns == DataKeys(data)
      setClause == Join([i \in DOMAIN columns |->
                           <<columns[i], " = ", Placeholder(i)>>], ", ")
  IN [text |-> <<"UPDATE ", table, " SET ">> \o setClause
               \o <<" WHERE ", where, " RETURNING *">>,
      params |-> ObjectValues(data)]

DeleteSql(table, where) ==
  [text |-> <<"DELETE FROM ", table, " WHERE ", where, " RETURNING *">>,
   params |-> <<>>]

\* handleCreateTable: `constraints ? ', ' + constraints.join(', ') : ''`; an
\* array is truthy, the empty one too.
CreateTableSql(tableName, columns, constraints) ==
  LET columnDefinitions ==
        Join([i \in DOMAIN columns |->
                <<columns[i].name, " ", columns[i].type>>
                \o (IF TruthyText(columns[i].constraints)
                    THEN <<" ">> \o columns[i].constraints.text ELSE <<>>)],
             ", ")
      tableConstraints ==
        IF constraints.given
        THEN <<", ">> \o Join([i \in DOMAIN constraints.items |->
                                 <<constraints.items[i]>>], ", ")
        ELSE <<>>
  IN [text |-> <<"CREATE TABLE ", tableName, " (">> \o columnDefinitions
               \o tableConstraints \o <<")">>,
      params |-> <<>>]

\* handleCreateFunction's template; NL is a line break and its indentation.
NL == "\n        "

CreateFunctionSql(args) ==
  [text |-> <<NL, "CREATE OR REPLACE FUNCTION ", args.name, "(", args.parameters,
              ")", NL, "RETURNS ", args.returnType, NL, "LANGUAGE ",
              args.language, NL>>
            \o (IF TruthyText(args.options) THEN args.options.text ELSE <<>>)
            \o <<NL, "AS $$", NL, args.body, NL, "$$;", "\n      ">>,
   params |-> <<>>]

CreateTriggerSql(args) ==
  [text |-> <<NL, "CREATE TRIGGER ", args.name, NL, args.when, " ">>
            \o Join([i \in DOMAIN args.events |-> <<args.events[i]>>], " OR ")
            \o <<NL, "ON ", args.tableName, NL, "FOR EACH ", args.forEach, NL>>
            \o (IF TruthyText(args.condition)
                THEN <<"WHEN (">> \o args.condition.text \o <<")">> ELSE <<>>)
            \o <<NL, "EXECUTE FUNCTION ", args.functionName, "();", "\n      ">>,
   params |-> <<>>]

CreateIndexSql(args) ==
  [text |-> <<NL, "CREATE ">>
            \o (IF args.unique THEN <<"UNIQUE">> ELSE <<>>)
            \o <<" INDEX ", args.indexName, NL, "ON ", args.tableName, " ">>
            \o (IF TruthyText(args.type)
                THEN <<"USING ">> \o args.type.text ELSE <<>>)
            \o <<" (">>
            \o Join([i \in DOMAIN args.columns |-> <<args.columns[i]>>], ", ")
            \o <<")", NL>>
            \o (IF TruthyText(args.where)
                THEN <<"WHERE ">> \o args.where.text ELSE <<>>)
            \o <<"\n      ">>,
   params |-> <<>>]

AlterTableSql(args) ==
  [text |-> <<"ALTER TABLE ", args.tableName, " ", args.operation, " ", args.details>>,
   params |-> <<>>]

\* The statement a handler sends between BEGIN and COMMIT, from the
\* arguments of its call.
StatementOf(op, args) ==
  CASE op \in {"query", "execute"} -> [text |-> args.sql, params |-> <<>>]
    [] op = "insert" -> InsertSql(args.table, args.data)
    [] op = "update" -> UpdateSql(args.table, args.data, args.where)
    [] op = "delete" -> DeleteSql(args.table, args.where)
    [] op = "createTable" ->
         CreateTableSql(args.tableName, args.columns, args.constraints)
    [] op = "createFunction" -> CreateFunctionSql(args)
    [] op = "createTrigger" -> CreateTriggerSql(args)
    [] op = "createIndex" -> CreateIndexSql(args)
    [] op = "alterTable" -> AlterTableSql(args)

\* The operations whose handlers return a message and the statement.
DefinitionOps ==
  {"createTable", "createFunction", "createTrigger", "createIndex",
   "alterTable"}

\* A payload without the statement.
PayloadWithoutSql(call) ==
  IF call.op \in DefinitionOps THEN [kind |-> "message", sql |-> NotSet]
  ELSE IF call.op = "execute" THEN [kind |-> "command", sql |-> NotSet]
  ELSE [kind |-> "rows", sql |-> NotSet]

\* What a handler serialises into content[0].text on success: the rows; the
\* command, row count and rows; or a message and the statement it built.
PayloadOf(call) ==
  IF call.op \in DefinitionOps
  THEN [kind |-> "message", sql |-> Set(call.text)]
  ELSE IF call.op = "execute" THEN [kind |-> "command", sql |-> NotSet]
  ELSE [kind |-> "rows", sql |-> NotSet]

\* The sequences over a set up to a length.
SeqsUpTo(S, n) == UNION {[1..m -> S] : m \in 0..n}

\* The `data` arguments: objects of up to MaxColumns properties, the keys
\* distinct, one of them integer-like.
DataObjects ==
  {d \in SeqsUpTo([key : {"a", "b", "1"}, value : {"v", "w"}], MaxColumns) :
     \A i, j \in DOMAIN d : i # j => d[i].key # d[j].key}

\* The `columns` arguments of createTable: each column with no constraints,
\* empty ones or some.
ColumnLists ==
  SeqsUpTo([name : {"id"}, type : {"int"},
            constraints : {NotSet, Set(<<>>), Set(<<"PRIMARY KEY">>)}],
           MaxColumns)

\* The `constraints` arguments of createTable: missing, or an array, the
\* empty one too.
ConstraintLists ==
  {[given |-> FALSE, items |-> <<>>]}
  \cup {[given |-> TRUE, items |-> items] :
          items \in SeqsUpTo({"UNIQUE (id)", "CHECK (id > 0)"}, MaxColumns)}

\* The arguments of a call of each operation that sends a statement.  For
\* createTable every column list goes with no, an empty and a one-element
\* constraints array, and every constraints array with one plain column.
ToolInputs(op) ==
  CASE op \in {"query", "execute"} ->
         {[given |-> TRUE, sql |-> <<"SELECT 1">>]}
    [] op = "insert" ->
         {[given |-> TRUE, table |-> "t", data |-> d] : d \in DataObjects}
    [] op = "update" ->
         {[given |-> TRUE, table |-> "t", data |-> d, where |-> "id = 1"] :
            d \in DataObjects}
    [] op = "delete" -> {[given |-> TRUE, table |-> "t", where |-> "id = 1"]}
    [] op = "createTable" ->
         {[given |-> TRUE, tableName |-> "t", columns |-> cols,
           constraints |-> cons] :
            cols \in ColumnLists,
            cons \in {k \in ConstraintLists : Len(k.items) <= 1}}
         \cup {[given |-> TRUE, tableName |-> "t",
                columns |-> <<[name |-> "id", type |-> "int",
                               constraints |-> NotSet]>>,
                constraints |-> cons] : cons \in ConstraintLists}
    [] op = "createFunction" ->
         {[given |-> TRUE, name |-> "f", parameters |-> "x int",
           returnType |-> "int", language |-> "sql", body |-> "SELECT x",
           options |-> o] : o \in {NotSet, Set(<<"IMMUTABLE">>)}}
    [] op = "createTrigger" ->
         {[given |-> TRUE, name |-> "g", tableName |-> "t",
           functionName |-> "f", when |-> "BEFORE", events |-> ev,
           forEach |-> "ROW", condition |-> cond] :
            ev \in {<<"INSERT">>, <<"INSERT", "UPDATE">>},
            cond \in {NotSet, Set(<<"NEW.id > 0">>)}}
    [] op = "createIndex" ->
         {[given |-> TRUE, tableName |-> "t", indexName |-> "i",
           columns |-> cols, unique |-> u, type |-> ty, where |-> w] :
            cols \in {<<"id">>, <<"id", "x">>}, u \in BOOLEAN,
            ty \in {NotSet, Set(<<"btree">>)},
            w \in {NotSet, Set(<<"id > 0">>)}}
    [] op = "alterTable" ->
         {[given |-> TRUE, tableName |-> "t", operation |-> "ADD COLUMN",
           details |-> "x int"]}

\* A tool call that carries its arguments; sql is what the statement does.
CallTool(c, op, args, sql) ==
  /\ CanDispatch(c)
  /\ calls' = [calls EXCEPT ![c] =
       Acquire([NewCall(op, "", sql) EXCEPT !.input = args])]
  /\ UNCHANGED <<static, lifecycle, databases, pools, currentDatabase, pool, clients,
                 committed, lastSwitch>>

\* ------------------------------------------------------ handler continuations

\* A handler that asks the DatabaseManager for the pool at every statement.
ClientPoolCurrent(call) == GetCurrentPool

\* The pool of the client a handler sends its statements on: the handler
\* keeps `pool` and `client` in constants of its own.
ClientPool(call) == call.pool

\* The session of the client a call holds, with its database's rows.
SessionOf(call) ==
  LET cl == clients[ClientPool(call).env][call.client] IN
  [txn |-> cl.txn, delta |-> cl.delta, db |-> committed[ClientPool(call).env],
   ok |-> TRUE]

\* A transaction-control statement fails when the connection is lost: the
\* server discards the session's transaction.
ConnectionLost(s) == [s EXCEPT !.txn = "none", !.delta = 0, !.ok = FALSE]

Logged(call, stmt, res) == [call EXCEPT !.log = Append(@, <<stmt, res>>)]

\* A client that runs a statement while an earlier one is still queued.
ClientReadyUnordered(call) == TRUE

\* The client a call holds has nothing queued ahead of the call's statement
\* (a client runs its queries first in, first out).
ClientReady(call) == ~clients[ClientPool(call).env][call.client].queued

\* The state after a step of call c: its record, its client's session, the
\* rows of its database.  The client goes back to the pool when the step
\* released it; `queued` says a ROLLBACK was sent and not awaited.  A pool
\* that is ending closes the client it gets back.  A per-call pool is never
\* asked for a client again: of its idle client only that it is open is kept,
\* the session no one will use is not.
Step(c, call2, s, queued) ==
  LET call == calls[c]
      env == ClientPool(call).env
      k == call.client
  IN
  /\ Running
  /\ calls' = [calls EXCEPT ![c] = call2]
  /\ clients' = [clients EXCEPT ![env][k] =
       IF call2.released > call.released /\ env \in ending
       THEN FreshClient
       ELSE IF call2.released > call.released /\ variant = "perCall"
       THEN [holder |-> "free", txn |-> "none", delta |-> 0, queued |-> queued]
       ELSE [holder |-> IF call2.released > call.released
                        THEN "free" ELSE @.holder,
             txn |-> s.txn, delta |-> s.delta, queued |-> queued]]
  /\ committed' = [committed EXCEPT ![env] = s.db]
  /\ UNCHANGED <<static, lifecycle, databases, pools, currentDatabase, pool, lastSwitch>>

\* A finally block that releases only on the success path.
FinallySuccessOnly(call) ==
  IF call.outcome.kind = "thrown"
  THEN [call EXCEPT !.pc = "done"]
  ELSE [call EXCEPT !.released = @ + 1, !.pc = "done"]

\* finally { client.release(); }
Finally(call) == [call EXCEPT !.released = @ + 1, !.pc = "done"]

\* A try block without its catch: the next statement is sent whatever the
\* previous one did.
AfterTryNoCatch(ok, next) == next

\* Where the try block of a mutating handler goes after an awaited statement:
\* on to the next statement, or into catch.
AfterTry(ok, next) == IF ok THEN next ELSE "rollback"

\* The statement builder of the call throws.
BuilderThrows(call) == call.op \in StructuredOps /\ call.arg = "missing"

\* The clients pool.connect() may resolve with: an idle client when there is
\* one, else a new client while the pool is not full.
Connectable(env) ==
  LET idle == {k \in 1..PoolMax : clients[env][k].holder = "free"}
      absent == {k \in 1..PoolMax : clients[env][k].holder = "absent"}
  IN IF env \in ending THEN {}
     ELSE IF variant = "perCall" THEN {k \in absent : \A j \in absent : k <= j}
     ELSE IF idle # {} THEN idle
     ELSE {k \in absent : \A j \in absent : k <= j}

\* await pool.connect() settles: a client of the pool, or a rejection
\* (nothing acquired, the handler's try block not yet entered).  With a
\* client the handler enters try, builds its statement and sends its first
\* one; a builder that throws lands in catch.
ConnectDone(c) ==
  LET call == calls[c]
      env == call.pool.env
  IN
  /\ Running
  /\ call.pc = "connect"
  /\ \/ \E k \in Connectable(env) :
          /\ clients' = [clients EXCEPT ![env][k].holder = c]
          /\ calls' = [calls EXCEPT ![c] =
               [call EXCEPT !.client = k, !.acquired = @ + 1,
                  !.text = IF call.input.given
                           THEN StatementOf(call.op, call.input).text ELSE @,
                  !.params = IF call.input.given
                             THEN StatementOf(call.op, call.input).params ELSE @,
                  !.err = IF BuilderThrows(call) THEN "TypeError" ELSE @,
                  !.pc = IF call.op \in {"listResources", "readResource"}
                         THEN "select"
                         ELSE AfterTry(~BuilderThrows(call), "begin")]]
     \/ /\ calls' = [calls EXCEPT ![c] =
             [call EXCEPT !.pc = "done", !.outcome = Thrown("ConnectError")]]
        /\ UNCHANGED clients
  /\ UNCHANGED <<static, lifecycle, databases, pools, currentDatabase, pool, committed,
                 lastSwitch>>

\* The resource handlers' one statement settles; finally releases.
SelectDone(c) ==
  LET call == calls[c] IN
  /\ call.pc = "select"
  /\ ClientReady(call)
  /\ \E ok \in BOOLEAN :
       LET s == IF ok THEN ExecSql(SessionOf(call), call.sql)
                ELSE [SessionOf(call) EXCEPT !.ok = FALSE]
       IN Step(c,
               Finally([Logged(call, "SELECT", IF ok THEN "ok" ELSE "fail")
                  EXCEPT
                  !.listed = IF ok /\ call.op = "listResources"
                             THEN [i \in DOMAIN TableRows |-> Href(TableRows[i])]
                             ELSE @,
                  !.outcome = IF ok
                     THEN [kind |-> "result", isError |-> FALSE, error |-> "none"]
                     ELSE Thrown("StatementError")]),
               s, FALSE)

\* ------------------------------------------------------------------- query

\* handleQuery's finally: ROLLBACK is sent and not awaited, the client is
\* released at once.
QueryFinally(call) ==
  [Logged(call, "ROLLBACK", "pending") EXCEPT !.released = @ + 1, !.pc = "done"]

\* await client.query('BEGIN TRANSACTION READ ONLY') settles.
QueryBeginDone(c) ==
  LET call == calls[c] IN
  /\ call.op = "query"
  /\ call.pc = "begin"
  /\ ClientReady(call)
  /\ \/ Step(c, [Logged(call, "BEGIN TRANSACTION READ ONLY", "ok") EXCEPT
                   !.sent = call.text, !.pc = "stmt"],
             ExecStmt(SessionOf(call), "begin_ro"), FALSE)
     \/ Step(c,
             QueryFinally([Logged(call, "BEGIN TRANSACTION READ ONLY", "fail")
                EXCEPT !.err = "BeginError", !.outcome = Thrown("BeginError")]),
             ConnectionLost(SessionOf(call)), TRUE)

\* await client.query(sql) settles: the rows are returned, or the error is
\* rethrown; either way finally runs.
QueryStmtDone(c) ==
  LET call == calls[c]
      s == ExecSql(SessionOf(call), call.sql)
  IN
  /\ call.op = "query"
  /\ call.pc = "stmt"
  /\ ClientReady(call)
  /\ Step(c,
          QueryFinally(
            IF s.ok
            THEN [Logged(call, "SQL", "ok") EXCEPT
                    !.payload = PayloadOf(call), !.outcome = Envelope]
            ELSE [Logged(call, "SQL", "fail") EXCEPT
                    !.err = "StatementError",
                    !.outcome = Thrown("StatementError")]),
          s, TRUE)

\* The client runs a ROLLBACK that handleQuery sent without awaiting it; a
\* failure is only logged.
QueuedRollback(n, k) ==
  /\ Running
  /\ clients[n][k].queued
  /\ clients' = [clients EXCEPT ![n][k] =
       [@ EXCEPT !.txn = "none", !.delta = 0, !.queued = FALSE]]
  /\ UNCHANGED <<static, lifecycle, databases, pools, currentDatabase, pool, committed,
                 calls, lastSwitch>>

\* ------------------------------------------------------ mutating operations

\* A catch block in which a failed ROLLBACK replaces the error.
RethrownRollbackError(error, rollbackOk) ==
  IF rollbackOk THEN error ELSE "RollbackError"

\* catch (error) { await client.query('ROLLBACK').catch(warn); throw error; }
\* rethrows the error it caught.
Rethrown(error, rollbackOk) == error

\* await client.query('BEGIN') settles.
MutatingBeginDone(c) ==
  LET call == calls[c] IN
  /\ call.op \in MutatingOps
  /\ call.pc = "begin"
  /\ ClientReady(call)
  /\ \/ Step(c, [Logged(call, "BEGIN", "ok") EXCEPT
                   !.sent = call.text, !.pc = AfterTry(TRUE, "stmt")],
             ExecStmt(SessionOf(call), "begin"), FALSE)
     \/ Step(c, [Logged(call, "BEGIN", "fail") EXCEPT
                   !.err = "BeginError", !.pc = AfterTry(FALSE, "stmt")],
             ConnectionLost(SessionOf(call)), FALSE)

\* await client.query(<the operation's statement>) settles.
MutatingStmtDone(c) ==
  LET call == calls[c]
      s == ExecSql(SessionOf(call), call.sql)
  IN
  /\ call.op \in MutatingOps
  /\ call.pc = "stmt"
  /\ Step(c,
          IF s.ok
          THEN [Logged(call, "SQL", "ok") EXCEPT !.pc = AfterTry(TRUE, "commit")]
          ELSE [Logged(call, "SQL", "fail") EXCEPT
                  !.err = "StatementError", !.pc = AfterTry(FALSE, "commit")],
          s, FALSE)

\* await client.query('COMMIT') settles: the envelope is returned and
\* finally releases, or catch is entered.
MutatingCommitDone(c) ==
  LET call == calls[c] IN
  /\ call.op \in MutatingOps
  /\ call.pc = "commit"
  /\ \/ Step(c, Finally([Logged(call, "COMMIT", "ok") EXCEPT
                           !.payload = PayloadOf(call), !.outcome = Envelope]),
             ExecStmt(SessionOf(call), "commit"), FALSE)
     \/ Step(c, [Logged(call, "COMMIT", "fail") EXCEPT
                   !.err = "CommitError",
                   !.pc = "rollback"],
             ConnectionLost(SessionOf(call)), FALSE)

\* catch: await client.query('ROLLBACK') settles (a failure is logged),
\* the caught error is rethrown, finally releases.
MutatingRollbackDone(c) ==
  LET call == calls[c] IN
  /\ call.op \in MutatingOps
  /\ call.pc = "rollback"
  /\ ClientReady(call)
  /\ \E ok \in BOOLEAN :
       Step(c,
            Finally([Logged(call, "ROLLBACK", IF ok THEN "ok" ELSE "fail") EXCEPT
               !.rbFailed = ~ok,
               !.outcome = Thrown(Rethrown(call.err, ok))]),
            [ExecStmt(SessionOf(call), "rollback") EXCEPT !.ok = ok], FALSE)

\* The transport has the call's result or error: the slot is free again.
Return(c) ==
  /\ Running
  /\ calls[c].pc = "done"
  /\ calls' = [calls EXCEPT ![c] = IdleCall]
  /\ UNCHANGED <<static, lifecycle, databases, pools, currentDatabase, pool, clients,
                 committed, lastSwitch>>

\* ---------------------------------------------------------------- lifecycle

\* A pool closes a client that has been idle for idleTimeoutMillis.
IdleTimeout(n, k) ==
  /\ Running
  /\ clients[n][k].holder = "free"
  /\ ~clients[n][k].queued
  /\ clients' = [clients EXCEPT ![n][k] = FreshClient]
  /\ UNCHANGED <<static, lifecycle, databases, pools, currentDatabase, pool,
                 committed, calls, lastSwitch>>

\* pool.end() on every pool of the registry: the pool stops handing out
\* clients and closes its idle ones; it has ended when its last client has
\* been released.
EndPools ==
  [n \in DOMAIN clients |->
     [k \in 1..PoolMax |->
        IF n \in DOMAIN pools /\ clients[n][k].holder = "free"
        THEN FreshClient ELSE clients[n][k]]]

\* process.on('SIGINT' | 'SIGTERM', async () => { await closeAll(); ... })
\* up to its await.  closeAll() calls end() on every pool of the registry
\* (the per-call variant's closeAll() does nothing).  On a pool that is
\* already ending end() rejects, so closeAll() of a second signal rejects and
\* the handler's promise with it: an unhandled rejection, which ends the
\* process with code 1 or is only warned about, as Node is set up.
Signal ==
  /\ Running
  /\ process.signals < MaxSignals
  /\ IF variant = "perCall" \/ ending = {}
     THEN /\ process' = [process EXCEPT !.signals = @ + 1]
          /\ ending' = DOMAIN pools
          /\ clients' = EndPools
          /\ closers' = closers + 1
     ELSE /\ \/ process' = [Exited(1) EXCEPT !.signals = @ + 1]
             \/ process' = [process EXCEPT !.signals = @ + 1]
          /\ UNCHANGED <<ending, clients, closers>>
  /\ UNCHANGED <<static, databases, pools, currentDatabase, pool, committed,
                 calls, lastSwitch>>

\* await closeAll() has settled: process.exit(0).
CloseAllDone ==
  /\ process.status = "running"
  /\ ExitPending
  /\ process' = Exited(0)
  /\ UNCHANGED <<static, ending, closers, databases, pools, currentDatabase,
                 pool, clients, committed, calls, lastSwitch>>

\* ------------------------------------------------------------ configuration

\* A string is a sequence of tokens: the opening of a placeholder, its
\* closing brace, and pieces of other text.  The characters that delimit the
\* parts of a connection string are tokens of their own.
OPEN == "${env:"

CLOSE == "}"

\* String(Object), what a template or replace() makes of the constructor
\* property every plain object inherits.
ObjectString == "function Object() { [native code] }"

WithVar(envVars, name, text) ==
  [n \in DOMAIN envVars \cup {name} |-> IF n = name THEN text ELSE envVars[n]]

RECURSIVE ResolveFrom(_, _, _, _)
\* The loop of resolveEnvironmentVariables from the i-th declaration on.
ResolveFrom(declared, processEnv, i, envVars) ==
  IF i > Len(declared) THEN [exit |-> FALSE, envVars |-> envVars]
  ELSE LET envVar == declared[i]
           value == processEnv[envVar.name]
       IN IF ~TruthyText(value)
          THEN IF TruthyText(envVar.default)
               THEN ResolveFrom(declared, processEnv, i + 1,
                                WithVar(envVars, envVar.name, envVar.default.text))
               ELSE [exit |-> TRUE, envVars |-> envVars]
          ELSE ResolveFrom(declared, processEnv, i + 1,
                           WithVar(envVars, envVar.name, value.text))

\* resolveEnvironmentVariables(config): the table, or process.exit(1).
ResolveEnvironmentVariables(declared, processEnv) ==
  ResolveFrom(declared, processEnv, 1, <<>>)

\* envVars[envName] on the plain object envVars, as the replacement text;
\* found is whether the value is not undefined.
EnvVarsGet(envVars, envName) ==
  IF Len(envName) = 1 /\ envName[1] \in DOMAIN envVars
  THEN [found |-> TRUE, text |-> envVars[envName[1]]]
  ELSE IF Len(envName) = 1 /\ envName[1] \in ObjectPrototypeKeys
  THEN [found |-> TRUE, text |-> <<ObjectString>>]
  ELSE [found |-> FALSE, text |-> <<>>]

RECURSIVE SubstituteVariables(_, _)
\* text.replace(/\$\{env:([^}]+)\}/g, ...): from left to right, an opening
\* followed by one or more tokens other than the closing brace and then the
\* closing brace is replaced by the value of the name in between; a name
\* whose value is undefined throws.
SubstituteVariables(text, envVars) ==
  IF text = <<>> THEN [threw |-> FALSE, text |-> <<>>]
  ELSE LET closes == {j \in 2..Len(text) : text[j] = CLOSE}
           first == CHOOSE j \in closes : \A k \in closes : j <= k
       IN IF Head(text) = OPEN /\ closes # {} /\ first > 2
          THEN LET value == EnvVarsGet(envVars, SubSeq(text, 2, first - 1))
                   rest == SubstituteVariables(
                             SubSeq(text, first + 1, Len(text)), envVars)
               IN IF ~value.found \/ rest.threw
                  THEN [threw |-> TRUE, text |-> <<>>]
                  ELSE [threw |-> FALSE, text |-> value.text \o rest.text]
          ELSE LET rest == SubstituteVariables(Tail(text), envVars)
               IN IF rest.threw THEN rest
                  ELSE [threw |-> FALSE, text |-> <<Head(text)>> \o rest.text]

\* encodeURIComponent of one token.
EncodeToken(t) ==
  CASE t = "@" -> "%40"
    [] t = ":" -> "%3A"
    [] t = "/" -> "%2F"
    [] t = OPEN -> "%24%7Benv%3A"
    [] t = CLOSE -> "%7D"
    [] t = ObjectString -> "function%20Object()%20%7B%20%5Bnative%20code%5D%20%7D"
    [] OTHER -> t

EncodeURIComponent(text) == [i \in DOMAIN text |-> EncodeToken(text[i])]

\* How buildConnectionString inserts a user name or a password: the modular
\* config.ts encodes it, index.ts inserts it as it is.
CredentialOf(build, text) ==
  IF build = "monolith" THEN text ELSE EncodeURIComponent(text)

\* The same, in the build that runs.
Credential(text) == CredentialOf(variant, text)

\* A buildConnectionString that adds the password whether or not there is a
\* user name.
BuildConnectionStringFlat(dbConfig, envVars) ==
  IF dbConfig.connectionString # <<>>
  THEN SubstituteVariables(dbConfig.connectionString, envVars)
  ELSE
    LET host == SubstituteVariables(
                  IF dbConfig.host # <<>> THEN dbConfig.host
                  ELSE <<"localhost">>, envVars)
        port == IF dbConfig.port # "" THEN dbConfig.port ELSE "5432"
        database == SubstituteVariables(
                      IF dbConfig.database # <<>> THEN dbConfig.database
                      ELSE <<"postgres">>, envVars)
        username == SubstituteVariables(dbConfig.username, envVars)
        password == SubstituteVariables(dbConfig.password, envVars)
    IN IF host.threw \/ database.threw \/ username.threw \/ password.threw
       THEN [threw |-> TRUE, text |-> <<>>]
       ELSE [threw |-> FALSE,
             text |->
               <<"postgresql://">>
               \o Credential(username.text)
               \o (IF password.text # <<>>
                   THEN <<":">> \o Credential(password.text) ELSE <<>>)
               \o (IF username.text # <<>> \/ password.text # <<>>
                   THEN <<"@">> ELSE <<>>)
               \o host.text \o <<":", port, "/">> \o database.text
               \o (IF dbConfig.ssl THEN <<"?sslmode=require">> ELSE <<>>)]

\* buildConnectionString(dbConfig, envVars) of a build: the connection string, or the
\* error of a substitution.  A property that is missing and one that is the
\* empty string are the same to it (it tests truthiness): both are <<>>.
BuildConnectionStringOf(build, dbConfig, envVars) ==
  IF dbConfig.connectionString # <<>>
  THEN SubstituteVariables(dbConfig.connectionString, envVars)
  ELSE
    LET host == SubstituteVariables(
                  IF dbConfig.host # <<>> THEN dbConfig.host
                  ELSE <<"localhost">>, envVars)
        port == IF dbConfig.port # "" THEN dbConfig.port ELSE "5432"
        database == SubstituteVariables(
                      IF dbConfig.database # <<>> THEN dbConfig.database
                      ELSE <<"postgres">>, envVars)
        username == SubstituteVariables(dbConfig.username, envVars)
        password == SubstituteVariables(dbConfig.password, envVars)
    IN IF host.threw \/ database.threw \/ username.threw \/ password.threw
       THEN [threw |-> TRUE, text |-> <<>>]
       ELSE [threw |-> FALSE,
             text |->
               <<"postgresql://">>
               \o (IF username.text # <<>>
                   THEN CredentialOf(build, username.text)
                        \o (IF password.text # <<>>
                            THEN <<":">> \o CredentialOf(build, password.text)
                            ELSE <<>>)
                        \o <<"@">>
                   ELSE <<>>)
               \o host.text \o <<":", port, "/">> \o database.text
               \o (IF dbConfig.ssl THEN <<"?sslmode=require">> ELSE <<>>)]

\* buildConnectionString(dbConfig, envVars) of the build that runs.
BuildConnectionString(dbConfig, envVars) ==
  BuildConnectionStringOf(variant, dbConfig, envVars)

\* ------------------------------------------------------------------ startup

\* The builds of the server: the modular one with either DatabaseManager,
\* and the single-file index.ts, which opens its pools as the pooled
\* DatabaseManager does and has its own buildConnectionString.
Builds == Variants \cup {"monolith"}

\* An entry of config.environmentVariables.
Declaration(name, default) == [name |-> name, default |-> default]

\* config.environmentVariables: none; A without a default, with an empty
\* one, with one; A with a default and B without.
Declarations ==
  {<<>>,
   <<Declaration("A", NotSet)>>,
   <<Declaration("A", Set(<<>>))>>,
   <<Declaration("A", Set(<<"d">>))>>,
   <<Declaration("A", Set(<<"d">>)), Declaration("B", NotSet)>>}

\* process.env, as far as A and B go.
ProcessEnvs ==
  {[A |-> a, B |-> b] : a \in {NotSet, Set(<<>>), Set(<<"v">>)},
                        b \in {NotSet, Set(<<"w">>)}}

DatabaseConfig(connectionString, host, port, database, username, password, ssl) ==
  [connectionString |-> connectionString, host |-> host, port |-> port,
   database |-> database, username |-> username, password |-> password,
   ssl |-> ssl]

\* Texts with placeholders: one; two of the same variable among other text;
\* one of a variable that may not be declared; one of a name every object
\* has; an empty and an unclosed one, which are no placeholders.
PlaceholderTexts ==
  {<<OPEN, "A", CLOSE>>,
   <<"x", OPEN, "A", CLOSE, "y", OPEN, "A", CLOSE>>,
   <<OPEN, "B", CLOSE>>,
   <<OPEN, "constructor", CLOSE>>,
   <<OPEN, CLOSE>>,
   <<OPEN, "A">>}

\* The DatabaseConfig of the first environment: an explicit connection
\* string; a host with placeholders; the host, port, database, user name,
\* password and ssl fields, there or not, the credentials with and without
\* characters that delimit the parts of a connection string.
DatabaseConfigs ==
  {DatabaseConfig(cs, <<"h">>, "", <<>>, <<"u">>, <<>>, FALSE) :
     cs \in PlaceholderTexts \cup {<<"postgresql://h/db">>}}
  \cup {DatabaseConfig(<<>>, host, "", <<"db">>, <<>>, <<>>, FALSE) :
          host \in PlaceholderTexts}
  \cup {DatabaseConfig(<<>>, host, port, database, username, password, ssl) :
          host \in {<<>>, <<"h">>}, port \in {"", "6543"},
          database \in {<<>>, <<"db">>},
          username \in {<<>>, <<"u">>, <<"u", "@", "x">>, <<OPEN, "A", CLOSE>>},
          password \in {<<>>, <<"p">>, <<"p", ":", "/", "@">>},
          ssl \in BOOLEAN}

\* config.environments: one environment, or a second one whose host is
\* plain or a placeholder.
Environments ==
  {<<[name |-> "a", database |-> db]>> : db \in DatabaseConfigs}
  \cup {<<[name |-> "a", database |-> db],
          [name |-> "b",
           database |-> DatabaseConfig(<<>>, host, "", <<>>, <<>>, <<>>, FALSE)]>> :
          db \in DatabaseConfigs, host \in {<<"h2">>, <<OPEN, "B", CLOSE>>}}

\* The process when index.ts starts to run, loadConfig() done.
StartupInit ==
  /\ variant \in Builds
  /\ startup \in
       {[pc |-> "resolve", declared |-> d, processEnv |-> e,
         environments |-> envs, envVars |-> <<>>, built |-> <<>>,
         reported |-> "none", unbuildable |-> {}] :
          d \in Declarations, e \in ProcessEnvs, envs \in Environments}
  /\ config = [i \in DOMAIN startup.environments |-> startup.environments[i].name]
  /\ process = RunningProcess
  /\ ending = {}
  /\ closers = 0
  /\ databases = <<>>
  /\ pools = <<>>
  /\ currentDatabase = Undefined
  /\ pool = UndefinedValue
  /\ clients = <<>>
  /\ committed = <<>>
  /\ calls = [c \in OneAtATime |-> IdleCall]
  /\ lastSwitch = Undefined

\* const envVars = resolveEnvironmentVariables(config): the first thing the
\* constructor (or index.ts) does; process.exit(1) on a variable it cannot
\* resolve.
ResolveDone ==
  /\ startup.pc = "resolve"
  /\ LET r == ResolveEnvironmentVariables(startup.declared, startup.processEnv)
     IN IF r.exit
        THEN /\ process' = Exited(1)
             /\ startup' = [startup EXCEPT !.pc = "exited"]
        ELSE /\ process' = process
             /\ startup' = [startup EXCEPT !.pc = "construct",
                                           !.envVars = r.envVars]
  /\ UNCHANGED <<config, variant, ending, closers, databases, pools,
                 currentDatabase, pool, clients, committed, calls, lastSwitch>>

\* for (const [dbName, dbConfig] of Object.entries(databases)): one turn of
\* the loop that opens the pools.  An error thrown by buildConnectionString
\* is caught by nothing: the process ends with code 1.
BuildPool ==
  /\ startup.pc = "construct"
  /\ variant # "perCall"
  /\ Len(startup.built) < Len(startup.environments)
  /\ LET env == startup.environments[Len(startup.built) + 1]
         r == BuildConnectionString(env.database, startup.envVars)
     IN IF r.threw
        THEN /\ process' = Exited(1)
             /\ startup' = [startup EXCEPT !.pc = "crashed"]
             /\ pools' = pools
        ELSE /\ process' = process
             /\ startup' = [startup EXCEPT !.built = Append(@, r.text)]
             /\ pools' = [n \in DOMAIN pools \cup {env.name} |-> PoolObj(n)]
  /\ UNCHANGED <<config, variant, ending, closers, databases, currentDatabase,
                 pool, clients, committed, calls, lastSwitch>>

\* The rest of the constructor: the cursor and the active pool.  The server
\* then serves requests.
Constructed ==
  /\ startup.pc = "construct"
  /\ variant = "perCall" \/ Len(startup.built) = Len(startup.environments)
  /\ databases' = ObjectKeys(config)
  /\ currentDatabase' = databases'[1]
  /\ pool' = IF variant = "perCall" THEN UndefinedValue
             ELSE Get(pools, currentDatabase')
  /\ LET targets == IF variant = "perCall"
                    THEN Range(config) \cup ObjectPrototypeKeys
                    ELSE Range(config)
     IN /\ clients' = [n \in targets |-> [k \in 1..PoolMax |-> FreshClient]]
        /\ committed' = [n \in targets |-> 0]
  /\ startup' = [startup EXCEPT
       !.pc = "serving",
       !.unbuildable =
          {startup.environments[i].name : i \in
             {j \in DOMAIN startup.environments :
                BuildConnectionString(startup.environments[j].database,
                                      startup.envVars).threw}}]
  /\ UNCHANGED <<config, variant, lifecycle, pools, calls, lastSwitch>>

\* The first getCurrentPool() of the per-call DatabaseManager, for a tool
\* call: the connection string of the current environment is built; an
\* error goes to the caller of the tool.
FirstGetCurrentPool ==
  /\ startup.pc = "serving"
  /\ variant = "perCall"
  /\ LET env == CHOOSE e \in Range(startup.environments) :
                  e.name = currentDatabase
         r == BuildConnectionString(env.database, startup.envVars)
     IN startup' = [startup EXCEPT
          !.pc = "operated",
          !.built = IF r.threw THEN @ ELSE Append(@, r.text),
          !.reported = IF r.threw THEN "UnknownVariable" ELSE @]
  /\ UNCHANGED <<config, variant, lifecycle, databases, pools, currentDatabase,
                 pool, clients, committed, calls, lastSwitch>>

StartupNext ==
  \/ ResolveDone
  \/ BuildPool
  \/ Constructed
  \/ FirstGetCurrentPool

\* ------------------------------------------------------------ specification

Next ==
  \/ \E c \in Calls, database \in SwitchArgs : CallSwitchDatabase(c, database)
  \/ \E c \in Calls : CallListDatabases(c)
  \/ \E c \in Calls : ListTools(c)
  \/ \E c \in Calls, name \in UnknownNames : CallUnknown(c, name)
  \/ \E c \in Calls, sql \in CallerSql : CallQuery(c, sql)
  \/ \E c \in Calls, sql \in CallerSql : CallMutating(c, "execute", "", sql)
  \/ \E c \in Calls, op \in MutatingOps \ {"execute"}, sql \in BuiltSql :
       CallMutating(c, op, "", sql)
  \/ \E c \in Calls, op \in StructuredOps :
       CallMutating(c, op, "missing", <<>>)
  \/ \E c \in Calls : ListResources(c)
  \/ \E c \in Calls, uri \in RequestUris : ReadResource(c, uri)
  \/ \E c \in Calls : ConnectDone(c)
  \/ \E c \in Calls : SelectDone(c)
  \/ \E c \in Calls : QueryBeginDone(c)
  \/ \E c \in Calls : QueryStmtDone(c)
  \/ \E n \in DOMAIN clients, k \in 1..PoolMax : QueuedRollback(n, k)
  \/ \E c \in Calls : MutatingBeginDone(c)
  \/ \E c \in Calls : MutatingStmtDone(c)
  \/ \E c \in Calls : MutatingCommitDone(c)
  \/ \E c \in Calls : MutatingRollbackDone(c)
  \/ \E c \in Calls : Return(c)
  \/ \E n \in DOMAIN clients, k \in 1..PoolMax : IdleTimeout(n, k)
  \/ Signal
  \/ CloseAllDone

\* The modular server with the pooled DatabaseManager.
Spec == Init /\ [][Next]_vars

\* The server with two environments when the transport delivers a request
\* while another is in flight.
OverlapInit ==
  /\ variant = "pooled"
  /\ startup = Serving({})
  /\ process = RunningProcess
  /\ ending = {}
  /\ closers = 0
  /\ config = <<"a", "b">>
  /\ databases = ObjectKeys(config)
  /\ pools = [n \in Range(config) |-> PoolObj(n)]
  /\ currentDatabase = databases[1]
  /\ pool = Get(pools, currentDatabase)
  /\ clients = [n \in Range(config) |-> [k \in 1..PoolMax |-> FreshClient]]
  /\ committed = [n \in Range(config) |-> 0]
  /\ calls = [c \in Overlapping |-> IdleCall]
  /\ lastSwitch = Undefined

\* The requests of overlapping calls: in one slot the query and execute
\* calls, in the other the switchDatabase calls that arrive meanwhile.
OverlapNext ==
  \/ \E database \in Range(config) \cup {"nosuch"} :
       CallSwitchDatabase("c2", database)
  \/ \E sql \in CallerSql : CallQuery("c1", sql)
  \/ \E sql \in CallerSql : CallMutating("c1", "execute", "", sql)
  \/ \E c \in Calls : ConnectDone(c)
  \/ \E c \in Calls : QueryBeginDone(c)
  \/ \E c \in Calls : QueryStmtDone(c)
  \/ \E n \in DOMAIN clients, k \in 1..PoolMax : QueuedRollback(n, k)
  \/ \E c \in Calls : MutatingBeginDone(c)
  \/ \E c \in Calls : MutatingStmtDone(c)
  \/ \E c \in Calls : MutatingCommitDone(c)
  \/ \E c \in Calls : MutatingRollbackDone(c)
  \/ \E c \in Calls : Return(c)

OverlapSpec == OverlapInit /\ [][OverlapNext]_vars

\* The server with one environment, for calls that carry their arguments.
BuilderInit ==
  /\ variant = "pooled"
  /\ startup = Serving({})
  /\ process = RunningProcess
  /\ ending = {}
  /\ closers = 0
  /\ config = <<"a">>
  /\ databases = ObjectKeys(config)
  /\ pools = [n \in Range(config) |-> PoolObj(n)]
  /\ currentDatabase = databases[1]
  /\ pool = Get(pools, currentDatabase)
  /\ clients = [n \in Range(config) |-> [k \in 1..PoolMax |-> FreshClient]]
  /\ committed = [n \in Range(config) |-> 0]
  /\ calls = [c \in OneAtATime |-> IdleCall]
  /\ lastSwitch = Undefined

\* The calls of the ten operations that send a statement, with their
\* arguments, and the continuations of their handlers.
BuilderNext ==
  \/ \E c \in Calls, op \in MutatingOps \cup {"query"} :
       \E args \in ToolInputs(op), sql \in BuiltSql : CallTool(c, op, args, sql)
  \/ \E c \in Calls : ConnectDone(c)
  \/ \E c \in Calls : QueryBeginDone(c)
  \/ \E c \in Calls : QueryStmtDone(c)
  \/ \E n \in DOMAIN clients, k \in 1..PoolMax : QueuedRollback(n, k)
  \/ \E c \in Calls : MutatingBeginDone(c)
  \/ \E c \in Calls : MutatingStmtDone(c)
  \/ \E c \in Calls : MutatingCommitDone(c)
  \/ \E c \in Calls : MutatingRollbackDone(c)
  \/ \E c \in Calls : Return(c)

BuilderSpec == BuilderInit /\ [][BuilderNext]_vars

\* A signal handler's continuation runs once its await has settled; nothing
\* makes a database round trip settle.
FairSpec == Spec /\ WF_vars(CloseAllDone)

\* The modular server with the per-call DatabaseManager.
PerCallSpec == InitPerCall /\ [][Next]_vars

\* The start of the process, of every build.
StartupSpec == StartupInit /\ [][StartupNext]_vars

\* ------------------------------------------------------------------ claims

Done(c) == calls[c].pc = "done"

\* The error a failed statement of a handler raises.
ErrorOf(stmt) ==
  IF stmt \in {"BEGIN", "BEGIN TRANSACTION READ ONLY"} THEN "BeginError"
  ELSE IF stmt = "COMMIT" THEN "CommitError"
  ELSE IF stmt = "ROLLBACK" THEN "RollbackError"
  ELSE "StatementError"

\* The first statement of a log that failed (0 when none did).
FirstFailed(log) ==
  IF \E i \in DOMAIN log : log[i][2] = "fail"
  THEN CHOOSE i \in DOMAIN log :
         /\ log[i][2] = "fail"
         /\ \A j \in 1..(i - 1) : log[j][2] # "fail"
  ELSE 0

\* C1: the active pool is always the registry's entry for the name the cursor
\* holds; the cursor is the target of the last successful switchDatabase; a
\* switchDatabase to a configured name succeeds; and a call that holds a
\* client took it from the pool of the environment current at its dispatch.
C1_SwitchTargetsSource ==
  /\ pool = Get(pools, currentDatabase)
  /\ lastSwitch # Undefined => currentDatabase = lastSwitch
  /\ \A c \in Calls :
       /\ (Done(c) /\ calls[c].op = "switchDatabase"
             /\ calls[c].arg \in Range(config))
            => calls[c].outcome = Envelope /\ lastSwitch # Undefined
       /\ calls[c].acquired > 0
            => /\ calls[c].pool = Get(pools, calls[c].envAtStart)
               /\ calls[c].pool.kind = "pool"

\* A call holds a client of the pool of an environment that a successful
\* switchDatabase made current, other than the default one.
C1_Witness ==
  \E c \in Calls :
    /\ calls[c].acquired > 0
    /\ calls[c].released = 0
    /\ lastSwitch \in Range(config)
    /\ lastSwitch # databases[1]
    /\ calls[c].pool = PoolObj(lastSwitch)
    /\ clients[lastSwitch][calls[c].client].holder = c

\* C2: a switchDatabase to a name that is not configured throws 'not found'
\* and leaves the cursor and the active pool as they were.
C2_FailedSwitchLeavesState ==
  \A c \in Calls :
    (Done(c) /\ calls[c].op = "switchDatabase"
       /\ calls[c].arg \notin Range(config))
      => /\ calls[c].outcome = Thrown("NotFound")
         /\ currentDatabase = calls[c].curBefore
         /\ pool = calls[c].poolBefore

\* C3: the cursor names a configured environment, and the first declared
\* one until a switchDatabase has succeeded.
C3_ExactlyOneCurrent ==
  /\ currentDatabase \in Range(config)
  /\ lastSwitch = Undefined => currentDatabase = config[1]

\* C4: when a query call has ended, the rows of every database are those of
\* before the call.
C4_QueryNeverCommits ==
  \A c \in Calls :
    (Done(c) /\ calls[c].op = "query") => committed = calls[c].dataBefore

\* C5: of a mutating handler's statements BEGIN is the first; its statement
\* is the second, sent only after a successful BEGIN; COMMIT is the third,
\* sent only after both succeeded, and then always; a failure of any of the
\* three is followed at once by ROLLBACK; ROLLBACK is the last statement of
\* its call, so no COMMIT follows it; a call that held a client ends after a
\* successful COMMIT or after a ROLLBACK.
C5_TransactionOrder ==
  \A c \in Calls :
    calls[c].op \in MutatingOps =>
      LET log == calls[c].log IN
      /\ \A i \in DOMAIN log :
           /\ log[i][1] \in {"BEGIN", "SQL", "COMMIT", "ROLLBACK"}
           /\ log[i][1] = "BEGIN" => i = 1
           /\ log[i][1] = "SQL" => i = 2 /\ log[1] = <<"BEGIN", "ok">>
           /\ log[i][1] = "COMMIT" =>
                i = 3 /\ log[1] = <<"BEGIN", "ok">> /\ log[2] = <<"SQL", "ok">>
           /\ log[i][1] = "ROLLBACK" =>
                i = Len(log) /\ (i > 1 => log[i - 1][2] = "fail")
           /\ (log[i][2] = "fail" /\ i < Len(log)) =>
                log[i + 1][1] = "ROLLBACK"
      /\ (Done(c) /\ calls[c].acquired > 0) =>
           /\ Len(log) >= 1
           /\ (\E i \in DOMAIN log : log[i][1] = "COMMIT") <=>
                (Len(log) >= 2 /\ log[1][2] = "ok" /\ log[2] = <<"SQL", "ok">>)
           /\ \/ log[Len(log)] = <<"COMMIT", "ok">>
              \/ log[Len(log)][1] = "ROLLBACK"

\* A mutating call has ended whose COMMIT failed and was followed by a
\* ROLLBACK.
C5_Witness ==
  \E c \in Calls :
    /\ Done(c)
    /\ calls[c].op \in MutatingOps
    /\ Len(calls[c].log) = 4
    /\ calls[c].log[3] = <<"COMMIT", "fail">>
    /\ calls[c].log[4][1] = "ROLLBACK"

\* C6: when a mutating call whose statement failed has ended, the rows of
\* every database are those of before the call.
C6_FailedMutationLeavesData ==
  \A c \in Calls :
    (Done(c) /\ calls[c].op \in MutatingOps
       /\ calls[c].err = "StatementError")
      => committed = calls[c].dataBefore

\* C7: a mutating call whose ROLLBACK failed throws the error that sent it
\* into catch (that of its first failed statement, or its builder's
\* TypeError when ROLLBACK is its only statement), never the rollback's, and
\* has released its client.
C7_RollbackFailureSwallowed ==
  \A c \in Calls :
    (Done(c) /\ calls[c].op \in MutatingOps /\ calls[c].rbFailed) =>
      LET log == calls[c].log
          f == FirstFailed(log)
      IN
      /\ f > 0
      /\ calls[c].outcome =
           Thrown(IF log[f][1] = "ROLLBACK" THEN "TypeError"
                  ELSE ErrorOf(log[f][1]))
      /\ log[f][1] = "ROLLBACK" => BuilderThrows(calls[c])
      /\ calls[c].released = 1
      /\ clients[calls[c].pool.env][calls[c].client].holder # c

\* A mutating call has ended whose statement failed and whose ROLLBACK
\* failed too.
C7_Witness ==
  \E c \in Calls :
    /\ Done(c)
    /\ calls[c].op \in MutatingOps
    /\ calls[c].rbFailed
    /\ Len(calls[c].log) = 3
    /\ calls[c].log[2] = <<"SQL", "fail">>
    /\ calls[c].log[3] = <<"ROLLBACK", "fail">>

ToolOps == MutatingOps \cup {"switchDatabase", "listDatabases", "query"}

\* C8: a tool call other than one with an unknown name never ends by
\* throwing: a failure is an envelope with isError set.
C8_FailuresAreEnvelopes ==
  \A c \in Calls :
    (Done(c) /\ calls[c].op \in ToolOps) =>
      /\ calls[c].outcome.kind = "envelope"
      /\ calls[c].err # "none" => calls[c].outcome.isError

\* C9: a call releases at most what it acquired, and at most one client;
\* when it has ended it has released exactly what it acquired; a client is
\* held by a call exactly while that call has acquired and not released it.
C9_ReleasedExactlyOnce ==
  /\ \A c \in Calls :
       /\ calls[c].released <= calls[c].acquired
       /\ calls[c].acquired <= 1
       /\ Done(c) => calls[c].released = calls[c].acquired
  /\ \A n \in DOMAIN clients : \A k \in 1..PoolMax :
       LET h == clients[n][k].holder IN
       /\ h \notin {"free", "absent"} =>
            /\ h \in Calls
            /\ calls[h].acquired = 1
            /\ calls[h].released = 0
            /\ calls[h].pool = PoolObj(n)
            /\ calls[h].client = k
  /\ \A c \in Calls :
       (calls[c].acquired = 1 /\ calls[c].released = 0) =>
         clients[calls[c].pool.env][calls[c].client].holder = c

\* A call has ended on the path where the statement, then the ROLLBACK
\* failed, and no longer holds its client.
C9_Witness ==
  \E c \in Calls :
    /\ Done(c)
    /\ calls[c].rbFailed
    /\ calls[c].acquired = 1
    /\ calls[c].released = 1
    /\ clients[calls[c].pool.env][calls[c].client].holder # c

\* C10: the rows of an environment's database change only in a step of a
\* call that was dispatched while that environment was current.
C10_OnlyCurrentEnvChanges ==
  [][\A n \in DOMAIN committed :
       committed'[n] # committed[n] =>
         \E c \in Calls :
           /\ calls[c].envAtStart = n
           /\ calls'[c] # calls[c]
           /\ calls[c].pc \notin {"idle", "done"}]_vars

\* With two environments configured, a mutating call dispatched after a
\* switch away from the default environment has committed a row there, and
\* the default environment's database has none.
C10_Witness ==
  \E c \in Calls :
    /\ Done(c)
    /\ calls[c].op \in MutatingOps
    /\ calls[c].outcome = Envelope
    /\ Len(databases) = 2
    /\ calls[c].envAtStart = lastSwitch
    /\ lastSwitch = databases[2]
    /\ committed[databases[2]] > 0
    /\ committed[databases[1]] = 0

\* C11: in the result of listDatabases exactly one entry has its current
\* flag set, its name is the currentDatabase field of the result, and that
\* is the target of the last successful switchDatabase, or the first
\* configured environment when there has been none.
C11_ListMarksCurrent ==
  \A c \in Calls :
    (Done(c) /\ calls[c].op = "listDatabases") =>
      LET listed == calls[c].listed
          cur == {i \in DOMAIN listed : listed[i].current}
      IN
      /\ Cardinality(cur) = 1
      /\ \A i \in cur : listed[i].name = calls[c].arg
      /\ calls[c].arg =
           IF lastSwitch # Undefined THEN lastSwitch ELSE config[1]

\* The twelve names of the catalog.
Catalog == Range(ToolCases)

\* C12: a call whose name is none of the twelve ends at once by throwing
\* 'Unknown tool', holds no client, has sent no statement and leaves the
\* cursor, the active pool and the data as they were; a call whose name is
\* one of the twelve matches one case label, is routed to that case's handler
\* and behaves as that handler does: only handleQuery opens a read-only
\* transaction, only the nine mutating handlers send BEGIN or ROLLBACK, only
\* handleListDatabases lists.
C12_UnknownToolRejected ==
  \A c \in Calls :
    LET call == calls[c] IN
    /\ (call.op \in UnknownNames) =>
         /\ call.handler = "default"
         /\ call.pc = "done"
         /\ call.outcome = Thrown("UnknownTool")
         /\ call.acquired = 0
         /\ call.log = <<>>
         /\ currentDatabase = call.curBefore
         /\ pool = call.poolBefore
         /\ committed = call.dataBefore
    /\ (call.op \in Catalog) =>
         /\ Cardinality({i \in DOMAIN ToolCases : ToolCases[i] = call.op}) = 1
         /\ \E i \in DOMAIN ToolCases :
              ToolCases[i] = call.op /\ call.handler = ToolHandlers[i]
         /\ call.outcome # Thrown("UnknownTool")
         /\ call.handler = "handleQuery" <=> call.op = "query"
         /\ call.handler = "handleSwitchDatabase" <=> call.op = "switchDatabase"
         /\ call.handler = "handleListDatabases" <=> call.op = "listDatabases"
         /\ call.listed # <<>> => call.handler = "handleListDatabases"
         /\ call.log # <<>> =>
              IF call.log[1][1] = "BEGIN TRANSACTION READ ONLY"
              THEN call.handler = "handleQuery"
              ELSE call.op \in MutatingOps
         /\ call.acquired > 0 =>
              call.handler \notin
                {"handleSwitchDatabase", "handleListDatabases", "default"}

\* A call with a name outside the catalog has ended after a switchDatabase
\* moved the cursor off the default environment.
C12_Witness ==
  \E c \in Calls :
    /\ Done(c)
    /\ calls[c].op \in UnknownNames
    /\ calls[c].outcome = Thrown("UnknownTool")
    /\ lastSwitch # Undefined
    /\ currentDatabase = lastSwitch

\* A connection source that is open: a client of some pool, idle or held.
OpenSources ==
  {<<n, k>> \in (DOMAIN clients) \X (1..PoolMax) :
     clients[n][k].holder # "absent"}

\* C18: when the process has exited after a termination signal, every
\* connection source that was opened is closed and the exit code is 0.
C18_ShutdownClosesSources ==
  process.status = "exited" => process.code = 0 /\ OpenSources = {}

\* C19: once a signal handler awaits closeAll(), the process eventually
\* exits.
C19_ShutdownTerminates ==
  (closers > 0) ~> (process.status = "exited")

\* C20: under the per-call strategy the source opened for a call is closed
\* when the call has ended; under the pooled strategy there are no more pools
\* than configured environments.
C20_NoSourceLeaked ==
  /\ variant = "perCall" =>
       \A c \in Calls :
         (Done(c) /\ calls[c].acquired > 0) =>
           clients[calls[c].pool.env][calls[c].client].holder = "absent"
  /\ variant = "pooled" => Cardinality(DOMAIN pools) <= Len(config)

\* A declared variable has a value to resolve to: a process value that is
\* there and not empty, or a declared default.
Resolvable(envVar) ==
  TruthyText(startup.processEnv[envVar.name]) \/ envVar.default.set

\* The value a declared variable is to resolve to.
Effective(envVar) ==
  IF TruthyText(startup.processEnv[envVar.name])
  THEN startup.processEnv[envVar.name].text
  ELSE envVar.default.text

DeclaredVars == Range(startup.declared)

\* The names in the placeholders of a text.
PlaceholderNames(text) ==
  {text[i + 1] : i \in {j \in 1..(Len(text) - 2) :
                          text[j] = OPEN /\ text[j + 2] = CLOSE}}

RECURSIVE ReplaceAll(_)
\* A text with every placeholder of a declared variable replaced by the
\* value the variable is to resolve to.
ReplaceAll(text) ==
  IF Len(text) >= 3 /\ text[1] = OPEN /\ text[3] = CLOSE
     /\ \E v \in DeclaredVars : v.name = text[2]
  THEN Effective(CHOOSE v \in DeclaredVars : v.name = text[2])
       \o ReplaceAll(SubSeq(text, 4, Len(text)))
  ELSE IF text = <<>> THEN <<>>
  ELSE <<Head(text)>> \o ReplaceAll(Tail(text))

\* C13: when every declared variable has a process value that is not empty
\* or a declared default, the table is built, holds for each declared
\* variable the process value if there is a non-empty one and else the
\* declared default, and a connection string whose placeholders all name
\* declared variables is built with every placeholder replaced by that value.
C13_SubstitutionResolves ==
  (startup.pc # "resolve" /\ \A v \in DeclaredVars : Resolvable(v)) =>
    /\ startup.pc # "exited"
    /\ \A v \in DeclaredVars :
         /\ v.name \in DOMAIN startup.envVars
         /\ startup.envVars[v.name] = Effective(v)
    /\ \A j \in DOMAIN startup.built :
         LET text == startup.environments[j].database.connectionString IN
         (text # <<>>
            /\ PlaceholderNames(text) \subseteq {v.name : v \in DeclaredVars})
           => startup.built[j] = ReplaceAll(text)

\* C14: startup ends in the fatal exit exactly when some declared variable
\* has neither a non-empty process value nor a declared default; the exit
\* code is then not 0, and no pool has been made and no request served.
C14_FatalOnlyWhenUnresolvable ==
  startup.pc # "resolve" =>
    /\ startup.pc = "exited" <=> \E v \in DeclaredVars : ~Resolvable(v)
    /\ startup.pc = "exited" =>
         /\ process.status = "exited"
         /\ process.code # 0
         /\ pools = <<>>
         /\ startup.built = <<>>
         /\ \A c \in Calls : calls[c] = IdleCall

\* C15: a placeholder of a name that is not in the table never ends the
\* start of the process; its error is reported to a caller, by an operation
\* of a server that runs.
C15_UnknownPlaceholderDeferred ==
  /\ startup.pc # "crashed"
  /\ startup.reported # "none" =>
       startup.pc = "operated" /\ process.status = "running"

\* The substituted text of a field.
Substituted(text) == SubstituteVariables(text, startup.envVars).text

\* How often a token occurs in a string.
Count(str, token) == Cardinality({i \in DOMAIN str : str[i] = token})

\* The place of the last "@" of a string, 0 when it has none.
LastAt(str) ==
  IF \E i \in DOMAIN str : str[i] = "@"
  THEN CHOOSE i \in DOMAIN str :
         str[i] = "@" /\ \A j \in DOMAIN str : str[j] = "@" => j <= i
  ELSE 0

\* A string has a user part: something between the scheme and an "@".
HasUserPart(str) == LastAt(str) > 2

\* A string has a password part: a ":" in its user part.
HasPasswordPart(str) == \E i \in 2..(LastAt(str) - 1) : str[i] = ":"

\* What follows the user part of a string (or the scheme, when there is no
\* user part), without the ssl suffix.
HostPortDatabase(str) ==
  LET from == IF LastAt(str) > 0 THEN LastAt(str) + 1 ELSE 2
      to == IF str[Len(str)] = "?sslmode=require"
            THEN Len(str) - 1 ELSE Len(str)
  IN SubSeq(str, from, to)

\* What the claim says of the string built for a DatabaseConfig, but for the
\* password part.
ConnectionStringShape(db, str) ==
  IF db.connectionString # <<>>
  THEN str = Substituted(db.connectionString)
  ELSE /\ str[1] = "postgresql://"
       /\ HasUserPart(str) <=> db.username # <<>>
       /\ str[Len(str)] = "?sslmode=require" <=> db.ssl
       /\ HostPortDatabase(str) =
            Substituted(IF db.host # <<>> THEN db.host ELSE <<"localhost">>)
            \o <<":", IF db.port # "" THEN db.port ELSE "5432", "/">>
            \o Substituted(IF db.database # <<>> THEN db.database
                           ELSE <<"postgres">>)

\* C16, as the code has it: every connection string that is built is the
\* substituted explicit one when there is one, and else has the scheme, a
\* user part iff a user name is set, in it a password part iff a user name
\* and a password are set, host, port and database with their defaults
\* localhost, 5432 and postgres, and ?sslmode=require iff ssl is set.
C16_ConnectionStringShape ==
  \A j \in DOMAIN startup.built :
    LET db == startup.environments[j].database
        str == startup.built[j]
    IN /\ ConnectionStringShape(db, str)
       /\ db.connectionString = <<>> =>
            (HasPasswordPart(str) <=>
               (db.username # <<>> /\ db.password # <<>>))

\* C16, as stated: the password part is there iff a password is set.
C16_PasswordPartIffPassword ==
  \A j \in DOMAIN startup.built :
    LET db == startup.environments[j].database
        str == startup.built[j]
    IN /\ ConnectionStringShape(db, str)
       /\ db.connectionString = <<>> =>
            (HasPasswordPart(str) <=> db.password # <<>>)

\* A connection string has been built from fields with a user name, a
\* password and ssl, and with no host, port or database.
C16_Witness ==
  \E j \in DOMAIN startup.built :
    LET db == startup.environments[j].database IN
    /\ db.connectionString = <<>>
    /\ db.username # <<>> /\ db.password # <<>> /\ db.ssl
    /\ db.host = <<>> /\ db.port = "" /\ db.database = <<>>
    /\ HasPasswordPart(startup.built[j])

\* C17: whatever build made it, a connection string built from fields has
\* the structure of its parts: one "@" when there is a user name and none
\* otherwise, one ":" before the port and one more when there is a password
\* part, one "/" before the database.
C17_CredentialsEncoded ==
  \A j \in DOMAIN startup.built :
    LET db == startup.environments[j].database
        str == startup.built[j]
    IN db.connectionString = <<>> =>
         /\ Count(str, "@") = IF db.username # <<>> THEN 1 ELSE 0
         /\ Count(str, ":") =
              IF db.username # <<>> /\ db.password # <<>> THEN 2 ELSE 1
         /\ Count(str, "/") = 1

\* The names for which switchDatabase succeeds, in the state as it is.
SwitchableNames == {n \in SwitchArgs : ~SwitchDatabase(n).threw}

\* C21: the catalog a ListTools request returns names exactly the twelve
\* operations the dispatcher has a case for, each once, and the enum of
\* switchDatabase's database parameter is exactly the set of configured
\* environment names, which is exactly the set of names for which
\* switchDatabase succeeds.
C21_CatalogMatchesDispatcher ==
  \A c \in Calls :
    (Done(c) /\ calls[c].op = "listTools") =>
      LET tools == calls[c].tools
          enum == tools[CHOOSE i \in DOMAIN tools :
                          tools[i].name = "switchDatabase"].enum
      IN
      /\ {tools[i].name : i \in DOMAIN tools} = Catalog
      /\ Len(tools) = Cardinality(Catalog)
      /\ \A i \in DOMAIN tools : HandlerOf(tools[i].name) # "default"
      /\ Range(enum) = Range(config)
      /\ Len(enum) = Len(config)
      /\ Range(enum) = SwitchableNames

\* A parsed URI whose path is <table>/schema: two segments after the
\* leading slash, the first not empty, the second "schema".
TwoSegment(uri) ==
  /\ uri.present
  /\ uri.parses
  /\ Len(uri.path) = 3
  /\ uri.path[1] = ""
  /\ uri.path[2] # ""
  /\ uri.path[3] = SCHEMA_PATH

\* C22: a resource read whose URI has not the shape <table>/schema has ended
\* at once as invalid, without asking a pool for a client.
C22_OnlyTwoSegmentUris ==
  \A c \in Calls :
    (calls[c].op = "readResource" /\ ~TwoSegment(calls[c].uri)) =>
      /\ calls[c].pc = "done"
      /\ calls[c].outcome \in {Thrown("UriRequired"), Thrown("InvalidUri")}
      /\ calls[c].acquired = 0

\* C29: a read of the URI the listing gives for a table is not rejected as
\* invalid, and the table name it binds as the query's parameter is that
\* table's name.
C29_ListReadRoundTrip ==
  \A c \in Calls : \A i \in DOMAIN TableRows :
    (calls[c].op = "readResource"
       /\ calls[c].uri = NewURL(Href(TableRows[i]))) =>
      /\ calls[c].outcome \notin {Thrown("UriRequired"), Thrown("InvalidUri")}
      /\ <<calls[c].arg>> = TableRows[i]

\* C25: while a call holds a client, the client is one of the pool of the
\* environment that was current at the call's dispatch, whatever the cursor
\* is by now; and a step in which a statement of the call settles changes
\* that client's session and that environment's rows and no others, and
\* leaves the call on the same pool and client.
C25_StatementsStayOnConnection ==
  [][\A c \in Calls :
       LET n == calls[c].envAtStart
           k == calls[c].client
       IN
       /\ calls[c].acquired > calls[c].released =>
            /\ calls[c].pool = PoolObj(n)
            /\ clients[n][k].holder = c
       /\ Len(calls'[c].log) > Len(calls[c].log) =>
            /\ calls'[c].pool = calls[c].pool
            /\ calls'[c].client = k
            /\ calls'[c].envAtStart = n
            /\ \A m \in DOMAIN clients : \A j \in 1..PoolMax :
                 clients'[m][j] # clients[m][j] => m = n /\ j = k
            /\ \A m \in DOMAIN committed :
                 committed'[m] # committed[m] => m = n]_vars

\* A call dispatched on the first environment awaits its COMMIT on a client
\* of that environment's pool after a switchDatabase made the second
\* environment current.
C25_Witness ==
  \E c \in Calls :
    /\ calls[c].pc = "commit"
    /\ calls[c].envAtStart = databases[1]
    /\ currentDatabase = databases[2]
    /\ pool = PoolObj(databases[2])
    /\ clients[databases[1]][calls[c].client].holder = c
    /\ Len(calls[c].log) = 2

\* C26: a client that is idle in its pool has no transaction open unless a
\* ROLLBACK is queued on it; a mutating call that has released its client
\* had its COMMIT succeed or its ROLLBACK settle before; and the first
\* statement of a call runs on a client with no transaction open and nothing
\* queued, so after the ROLLBACK a query call left behind.
C26_NoOpenTransactionHandedOver ==
  [][/\ \A n \in DOMAIN clients : \A k \in 1..PoolMax :
          (clients[n][k].holder = "free" /\ ~clients[n][k].queued) =>
            clients[n][k].txn = "none" /\ clients[n][k].delta = 0
     /\ \A c \in Calls :
          LET call == calls[c] IN
          /\ (call.op \in MutatingOps /\ call.released > 0) =>
               /\ call.log # <<>>
               /\ \/ call.log[Len(call.log)] = <<"COMMIT", "ok">>
                  \/ /\ call.log[Len(call.log)][1] = "ROLLBACK"
                     /\ call.log[Len(call.log)][2] \in {"ok", "fail"}
          /\ (call.op = "query" /\ call.released > 0) =>
               call.log[Len(call.log)] = <<"ROLLBACK", "pending">>
          /\ (call.acquired > 0 /\ call.log = <<>> /\ calls'[c].log # <<>>) =>
               LET cl == clients[call.pool.env][call.client] IN
               /\ ~cl.queued
               /\ cl.txn = "none"
               /\ cl.delta = 0]_vars

\* A call holds, before its first statement, a client on which the read-only
\* transaction of an earlier query call is still open and its ROLLBACK
\* queued.
C26_Witness ==
  \E c \in Calls :
    LET cl == clients[calls[c].pool.env][calls[c].client] IN
    /\ calls[c].pc = "begin"
    /\ calls[c].log = <<>>
    /\ cl.holder = c
    /\ cl.queued
    /\ cl.txn = "ro"

\* C27: a step changes the cursor or the active pool only if it is a
\* switchDatabase call that succeeds, and the cursor is then the name asked
\* for; a call of another kind, a resource request or a call that threw has
\* ended with the cursor it started with; and no step changes the
\* configuration, the configured names or the names of the registry.
C27_OnlySwitchMovesCursor ==
  [][/\ (currentDatabase' # currentDatabase \/ pool' # pool) =>
          \E c \in Calls :
            /\ calls[c].pc = "idle"
            /\ calls'[c].op = "switchDatabase"
            /\ calls'[c].outcome = Envelope
            /\ currentDatabase' = calls'[c].arg
     /\ \A c \in Calls :
          (Done(c) /\ (calls[c].op # "switchDatabase"
                         \/ calls[c].outcome.kind = "thrown")) =>
            currentDatabase = calls[c].curBefore /\ pool = calls[c].poolBefore
     /\ config' = config
     /\ databases' = databases
     /\ startup' = startup
     /\ DOMAIN pools' = DOMAIN pools]_vars

\* After a switchDatabase to the second environment a mutating call whose
\* statement failed has ended, and the cursor is still the second
\* environment.
C27_Witness ==
  \E c \in Calls :
    /\ Done(c)
    /\ calls[c].op \in MutatingOps
    /\ calls[c].outcome = Thrown("StatementError")
    /\ Len(databases) = 2
    /\ lastSwitch = databases[2]
    /\ calls[c].curBefore = databases[2]
    /\ currentDatabase = databases[2]

\* A successful call of an operation that sends a statement.
Succeeded(c) ==
  /\ Done(c)
  /\ calls[c].op \in MutatingOps \cup {"query"}
  /\ calls[c].outcome = Envelope

IsPlaceholder(t) == t \in {"$1", "$2", "$3", "$4"}

IsColumn(t) == t # ", "

\* The column list of an INSERT statement.
InsertColumns(text) ==
  LET close == CHOOSE j \in DOMAIN text : text[j] = ") VALUES ("
  IN SelectSeq(SubSeq(text, 4, close - 1), IsColumn)

\* C24: the statement an insert or update call sends has, for a data object
\* of n properties, the placeholders $1 to $n in this order and no others;
\* the i-th key in iteration order is the column paired with $i (the i-th of
\* the column list of an INSERT, the left side of `= $i` in an UPDATE); the
\* values sent with the statement are the n values of these keys in the same
\* order; and no value is part of the statement's text.
C24_ValuesAreBound ==
  \A c \in Calls :
    (calls[c].op \in {"insert", "update"} /\ calls[c].sent # <<>>) =>
      LET data == calls[c].input.data
          keys == DataKeys(data)
          n == Len(data)
          text == calls[c].sent
          params == calls[c].params
      IN
      /\ SelectSeq(text, IsPlaceholder) = [i \in 1..n |-> Placeholder(i)]
      /\ Len(params) = n
      /\ \A i \in 1..n :
           /\ \E j \in DOMAIN data :
                data[j].key = keys[i] /\ data[j].value = params[i]
           /\ IF calls[c].op = "insert"
              THEN InsertColumns(text)[i] = keys[i]
              ELSE \E j \in 3..Len(text) :
                     /\ text[j] = Placeholder(i)
                     /\ text[j - 1] = " = "
                     /\ text[j - 2] = keys[i]
      /\ calls[c].op = "insert" => Len(InsertColumns(text)) = n
      /\ \A j \in DOMAIN text : \A i \in DOMAIN data : text[j] # data[i].value

\* An insert call has succeeded whose data object was written with a string
\* key before an integer-like one, with different values: the values went
\* with the statement in the order of Object.keys.
C24_Witness ==
  \E c \in Calls :
    /\ Succeeded(c)
    /\ calls[c].op = "insert"
    /\ Len(calls[c].input.data) = 2
    /\ calls[c].input.data[2].key = "1"
    /\ calls[c].input.data[1].value # calls[c].input.data[2].value
    /\ calls[c].params =
         <<calls[c].input.data[2].value, calls[c].input.data[1].value>>

\* The statement the claim describes for the arguments of a createTable.
DescribedCreateTable(args) ==
  LET definitions ==
        Join([i \in DOMAIN args.columns |->
                <<args.columns[i].name, " ", args.columns[i].type>>
                \o (IF TruthyText(args.columns[i].constraints)
                    THEN <<" ">> \o args.columns[i].constraints.text
                    ELSE <<>>)], ", ")
      items == IF args.constraints.given THEN args.constraints.items ELSE <<>>
  IN <<"CREATE TABLE ", args.tableName, " (">> \o definitions
     \o (IF items = <<>> THEN <<>>
         ELSE <<", ">> \o Join([i \in DOMAIN items |-> <<items[i]>>], ", "))
     \o <<")">>

\* C28: the statement a createTable call builds is CREATE TABLE, the name,
\* and in parentheses the column definitions joined by ", ", followed by
\* ", " and the table constraints joined by ", " only when there is at
\* least one table constraint.
C28_CreateTableShape ==
  \A c \in Calls :
    (calls[c].op = "createTable" /\ calls[c].text # <<>>) =>
      calls[c].text = DescribedCreateTable(calls[c].input)


\* C30: the single-file index.ts and the modular server with the pooled
\* DatabaseManager are equivalent for every configuration: each pool of
\* index.ts is opened on the connection string the modular build opens the
\* pool of that environment on, so that the same calls reach the same
\* database with the same credentials, and the cursor starts on the same
\* environment.
C30_MonolithEquivalent ==
  variant = "monolith" =>
    /\ \A j \in DOMAIN startup.built :
         startup.built[j] =
           BuildConnectionStringOf("pooled", startup.environments[j].database,
                                   startup.envVars).text
    /\ startup.pc = "serving" => currentDatabase = ObjectKeys(config)[1]

====
